---------------------------- MODULE Spec2Model ----------------------------
(***************************************************************************)
(* Model of cmd/gomod-zip/zip.go: the tool that packs the module checked   *)
(* out at $GOPATH/src/<package-name> into                                  *)
(* $GOPATH/pkg/mod/cache/download/<package-name>/@v[...]/<version>.zip.    *)
(*                                                                         *)
(* A Go string is a sequence of one-character strings, so that             *)
(* fmt.Sprintf, strings.TrimPrefix, semver.Parse and filepath.Join are     *)
(* computed character by character.  The file system is a function from    *)
(* paths to files.                                                         *)
(***************************************************************************)
EXTENDS Integers, Sequences, FiniteSets, TLC

(***************************************************************************)
(* Bounds of the model.                                                    *)
(***************************************************************************)
\* Number of times the tool is invoked, one after the other, in a behaviour.
MaxRuns == 2
\* Pseudo-versions <m>.3.1 and v<m>.3.1 are tried for every m in 0..MaxMajor.
MaxMajor == 3

(***************************************************************************)
(* String literals of zip.go.                                              *)
(***************************************************************************)
Empty == << >>
Slash == <<"/">>
Dot == <<".">>
DotDot == <<".", ".">>
VPrefix == <<"v">>
SrcInfix == <<"/", "s", "r", "c", "/">>
CacheInfix ==
    <<"/", "p", "k", "g", "/", "m", "o", "d", "/", "c", "a", "c", "h", "e",
      "/", "d", "o", "w", "n", "l", "o", "a", "d", "/">>
AtV == <<"/", "@", "v">>
SlashV == <<"/", "v">>
GoMod == <<"g", "o", ".", "m", "o", "d">>
ZipExt == <<".", "z", "i", "p">>

(***************************************************************************)
(* package strings                                                         *)
(***************************************************************************)
HasPrefix(s, p) == Len(s) >= Len(p) /\ SubSeq(s, 1, Len(p)) = p

HasSuffix(s, p) ==
    Len(s) >= Len(p) /\ SubSeq(s, Len(s) - Len(p) + 1, Len(s)) = p

TrimPrefix(s, p) ==
    IF HasPrefix(s, p) THEN SubSeq(s, Len(p) + 1, Len(s)) ELSE s

\* strings.IndexRune, 1-based; 0 when c does not occur in s (Go: -1).
IndexRune(s, c) ==
    IF \E i \in 1..Len(s) : s[i] = c
    THEN CHOOSE i \in 1..Len(s) :
             s[i] = c /\ \A j \in 1..(i - 1) : s[j] # c
    ELSE 0

\* strings.SplitN(s, c, n) for n >= 1: at most n parts, the last one unsplit.
RECURSIVE SplitN(_, _, _)
SplitN(s, c, n) ==
    LET i == IndexRune(s, c)
    IN  IF n <= 1 \/ i = 0
        THEN <<s>>
        ELSE <<SubSeq(s, 1, i - 1)>>
                 \o SplitN(SubSeq(s, i + 1, Len(s)), c, n - 1)

\* strings.Split(s, c): every part.
RECURSIVE Split(_, _)
Split(s, c) ==
    LET i == IndexRune(s, c)
    IN  IF i = 0
        THEN <<s>>
        ELSE <<SubSeq(s, 1, i - 1)>> \o Split(SubSeq(s, i + 1, Len(s)), c)

(***************************************************************************)
(* strconv and the %d verb                                                 *)
(***************************************************************************)
numbers == {"0", "1", "2", "3", "4", "5", "6", "7", "8", "9"}

letters ==
    {"a", "b", "c", "d", "e", "f", "g", "h", "i", "j", "k", "l", "m",
     "n", "o", "p", "q", "r", "s", "t", "u", "v", "w", "x", "y", "z"}

\* semver's alphanum: letters, digits and the hyphen (the inputs of the
\* model use lower-case letters only).
alphanum == letters \cup numbers \cup {"-"}

DigitString == <<"0", "1", "2", "3", "4", "5", "6", "7", "8", "9">>

DigitVal(c) == (CHOOSE i \in 1..Len(DigitString) : DigitString[i] = c) - 1

\* strconv.ParseUint(s, 10, 64): err on the empty string and on a character
\* that is no digit.  (The range error needs 20 digits; the strings of the
\* model are shorter.)
RECURSIVE ParseDigits(_, _)
ParseDigits(s, acc) ==
    IF s = Empty
    THEN acc
    ELSE ParseDigits(Tail(s), acc * Len(DigitString) + DigitVal(Head(s)))

ParseUint(s) ==
    IF s = Empty \/ \E i \in 1..Len(s) : s[i] \notin numbers
    THEN [err |-> TRUE, val |-> 0]
    ELSE [err |-> FALSE, val |-> ParseDigits(s, 0)]

\* fmt's %d of an unsigned integer.
RECURSIVE FormatUint(_)
FormatUint(n) ==
    IF n < Len(DigitString)
    THEN <<DigitString[n + 1]>>
    ELSE FormatUint(n \div Len(DigitString))
             \o <<DigitString[(n % Len(DigitString)) + 1]>>

(***************************************************************************)
(* github.com/blang/semver/v4, as called at zip.go:67                      *)
(***************************************************************************)
containsOnly(s, set) == \A i \in 1..Len(s) : s[i] \in set

hasLeadingZeroes(s) == Len(s) > 1 /\ s[1] = "0"

\* One numeric component: digits only, no leading zero, parsable.
NumericOk(s) ==
    containsOnly(s, numbers) /\ ~hasLeadingZeroes(s) /\ ~ParseUint(s).err

\* semver.NewPRVersion succeeds.
PRVersionOk(s) ==
    /\ s # Empty
    /\ containsOnly(s, alphanum)
    /\ containsOnly(s, numbers) => ~hasLeadingZeroes(s)

\* One build-metadata identifier is accepted.
BuildOk(s) == s # Empty /\ containsOnly(s, alphanum)

\* semver.Parse(s): [err, Major].  Only Major is read by zip.go.
semverParse(s) ==
    LET parts == SplitN(s, ".", 3)
        Fail == [err |-> TRUE, Major |-> 0]
    IN  IF s = Empty \/ Len(parts) # 3
        THEN Fail
        ELSE
          LET buildIndex == IndexRune(parts[3], "+")
              build == IF buildIndex # 0
                       THEN Split(SubSeq(parts[3], buildIndex + 1,
                                         Len(parts[3])), ".")
                       ELSE << >>
              noBuild == IF buildIndex # 0
                         THEN SubSeq(parts[3], 1, buildIndex - 1)
                         ELSE parts[3]
              preIndex == IndexRune(noBuild, "-")
              prerelease == IF preIndex # 0
                            THEN Split(SubSeq(noBuild, preIndex + 1,
                                              Len(noBuild)), ".")
                            ELSE << >>
              patchStr == IF preIndex # 0
                          THEN SubSeq(noBuild, 1, preIndex - 1)
                          ELSE noBuild
          IN  IF /\ NumericOk(parts[1])
                 /\ NumericOk(parts[2])
                 /\ NumericOk(patchStr)
                 /\ \A i \in 1..Len(prerelease) : PRVersionOk(prerelease[i])
                 /\ \A i \in 1..Len(build) : BuildOk(build[i])
              THEN [err |-> FALSE, Major |-> ParseUint(parts[1]).val]
              ELSE Fail

(***************************************************************************)
(* path/filepath                                                           *)
(***************************************************************************)
\* The elements of a path that survive Clean: empty and "." elements go,
\* ".." removes the element before it, and is itself dropped at the root.
RECURSIVE CleanElems(_, _, _)
CleanElems(elems, acc, rooted) ==
    IF elems = << >>
    THEN acc
    ELSE
      LET e == Head(elems)
          rest == Tail(elems)
      IN  IF e = Empty \/ e = Dot
          THEN CleanElems(rest, acc, rooted)
          ELSE IF e = DotDot
          THEN IF acc # << >> /\ acc[Len(acc)] # DotDot
               THEN CleanElems(rest, SubSeq(acc, 1, Len(acc) - 1), rooted)
               ELSE IF rooted
               THEN CleanElems(rest, acc, rooted)
               ELSE CleanElems(rest, Append(acc, e), rooted)
          ELSE CleanElems(rest, Append(acc, e), rooted)

RECURSIVE JoinElems(_)
JoinElems(elems) ==
    IF elems = << >>
    THEN Empty
    ELSE IF Len(elems) = 1
    THEN elems[1]
    ELSE elems[1] \o Slash \o JoinElems(Tail(elems))

\* filepath.Clean
Clean(path) ==
    LET rooted == HasPrefix(path, Slash)
        body == JoinElems(CleanElems(Split(path, "/"), << >>, rooted))
    IN  IF rooted
        THEN Slash \o body
        ELSE IF body = Empty THEN Dot ELSE body

\* filepath.Join(a, b): the non-empty elements joined by "/", then cleaned.
Join(a, b) ==
    IF a = Empty /\ b = Empty
    THEN Empty
    ELSE IF a = Empty
    THEN Clean(b)
    ELSE IF b = Empty
    THEN Clean(a)
    ELSE Clean(a \o Slash \o b)

(***************************************************************************)
(* Files, errors and I/O events                                            *)
(***************************************************************************)
\* A file is [kind, data]: "regular" (data: its content, a sequence of
\* chunks), "huge" (a regular file over the archive's size limit), "denied"
\* (os.Open fails on it) or "dir" (a directory: it opens, reading it fails).
DeniedFile == [kind |-> "denied", data |-> << >>]
DirFile == [kind |-> "dir", data |-> << >>]
HugeFile == [kind |-> "huge", data |-> << >>]
StaleFile == [kind |-> "regular", data |-> <<[kind |-> "stale"]>>]

\* The content of a go.mod: whether it is well-formed, whether it holds a
\* module directive, and the path and the version the directive carries.
GoModFile(syntaxOk, hasModule, path, version) ==
    [kind |-> "regular",
     data |-> <<[kind |-> "gomod", syntaxOk |-> syntaxOk,
                 hasModule |-> hasModule, path |-> path,
                 version |-> version]>>]

NoErr == [ctx |-> "", msg |-> "", path |-> Empty, cause |-> ""]

\* fmt.Errorf("<msg> <path>: %w", cause)
Errorf(msg, path, cause) ==
    [ctx |-> "", msg |-> msg, path |-> path, cause |-> cause]

NoMod == [Path |-> Empty, Version |-> Empty]

\* One call that touches the file system or the archive builder.
Event(op, path, mod) == [op |-> op, path |-> path, mod |-> mod]

Nil == [nil |-> TRUE]

(***************************************************************************)
(* golang.org/x/mod/modfile and golang.org/x/mod/zip, as called            *)
(***************************************************************************)
\* modfile.Parse(file, data, nil): [err, file].  Module is Nil when the
\* file holds no module directive.
modfileParse(data) ==
    IF Len(data) # 1 \/ data[1].kind # "gomod" \/ ~data[1].syntaxOk
    THEN [err |-> TRUE, file |-> Nil]
    ELSE IF ~data[1].hasModule
    THEN [err |-> FALSE, file |-> [Module |-> Nil]]
    ELSE [err |-> FALSE,
          file |-> [Module |->
                       [Mod |-> [Path |-> data[1].path,
                                 Version |-> data[1].version]]]]

\* The files below dir, by their path relative to dir.
TreeOf(files, dir) ==
    LET root == IF Clean(dir) = Slash THEN Slash ELSE Clean(dir) \o Slash
    IN  {<<SubSeq(p, Len(root) + 1, Len(p)), files[p]>> :
            p \in {q \in DOMAIN files : HasPrefix(q, root)}}

\* modzip.CreateFromDir(w, mod, dir): [err, bytes].  The archive is a
\* function of the module identity and of the tree; a file over the size
\* limit, or one that cannot be read, makes the builder fail.
CreateFromDir(files, mod, dir) ==
    LET tree == TreeOf(files, dir)
    IN  IF \E f \in tree : f[2].kind # "regular"
        THEN [err |-> TRUE, bytes |-> << >>]
        ELSE [err |-> FALSE,
              bytes |-> <<[kind |-> "zip", mod |-> mod, tree |-> tree]>>]

\* What os.WriteFile can do (zip.go:121): complete; fail to open the file
\* (missing directory, permissions), leaving the path as it was; or fail
\* while writing (disk full), after O_CREATE|O_TRUNC took effect.
WriteOutcomes == {"ok", "eopen", "ewrite"}

\* os.WriteFile(path, data, 0o644) under the given outcome: [err, files].
WriteFile(files, path, data, outcome) ==
    LET put(f) == [q \in DOMAIN files \cup {path} |->
                      IF q = path THEN f ELSE files[q]]
    IN  IF outcome = "eopen"
        THEN [err |-> TRUE, files |-> files]
        ELSE IF outcome = "ewrite"
        THEN [err |-> TRUE,
              files |-> put([kind |-> "regular",
                             data |-> <<[kind |-> "prefix", of |-> data]>>])]
        ELSE [err |-> FALSE,
              files |-> put([kind |-> "regular", data |-> data])]

(***************************************************************************)
(* zip.go                                                                  *)
(***************************************************************************)
\* Mutant: the error of semver.Parse is dropped.
ValidateFlags_NoParseCheck(name, version) ==
    LET parsed == semverParse(TrimPrefix(version, VPrefix))
    IN  IF name = Empty
        THEN [fatal |-> "package-name cannot be empty", Major |-> 0]
        ELSE IF version = Empty
        THEN [fatal |-> "pseudo-version cannot be empty", Major |-> 0]
        ELSE [fatal |-> "", Major |-> parsed.Major]

\* Mutant: the check of package-name is missing.
ValidateFlags_NoNameCheck(name, version) ==
    LET parsed == semverParse(TrimPrefix(version, VPrefix))
    IN  IF version = Empty
        THEN [fatal |-> "pseudo-version cannot be empty", Major |-> 0]
        ELSE IF parsed.err
        THEN [fatal |-> "error parsing pseudo-version", Major |-> 0]
        ELSE [fatal |-> "", Major |-> parsed.Major]

\* main, lines 59-70: the message of the glog.Fatalf reached ("" when none
\* is) and the major version parsed.
ValidateFlags(name, version) ==
    LET parsed == semverParse(TrimPrefix(version, VPrefix))
    IN  IF name = Empty
        THEN [fatal |-> "package-name cannot be empty", Major |-> 0]
        ELSE IF version = Empty
        THEN [fatal |-> "pseudo-version cannot be empty", Major |-> 0]
        ELSE IF parsed.err
        THEN [fatal |-> "error parsing pseudo-version", Major |-> 0]
        ELSE [fatal |-> "", Major |-> parsed.Major]

\* main, line 72
PackagePath(root, name) == root \o SrcInfix \o name

\* Mutant: the comparison is > 2 where the code has >= 2.
CacheDir_Above2(root, name, major) ==
    LET dir == root \o CacheInfix \o name \o AtV
    IN  IF major > 2 THEN dir \o SlashV \o FormatUint(major) ELSE dir

\* main, lines 73-76
CacheDir(root, name, major) ==
    LET dir == root \o CacheInfix \o name \o AtV
    IN  IF major >= 2 THEN dir \o SlashV \o FormatUint(major) ELSE dir

\* The outcome of getModuleFile's open, read and parse: the error met, or
\* the parsed file.  (Shared by the mutants below.)
LoadSteps(files, goModPath, errPath) ==
    LET opened == <<Event("open", goModPath, NoMod)>>
        read == opened \o <<Event("read", goModPath, NoMod)>>
    IN  IF goModPath \notin DOMAIN files
        THEN [file |-> Nil, io |-> opened,
              err |-> Errorf("error opening", errPath, "not exist")]
        ELSE IF files[goModPath].kind = "denied"
        THEN [file |-> Nil, io |-> opened,
              err |-> Errorf("error opening", errPath, "permission")]
        ELSE IF files[goModPath].kind = "dir"
        THEN [file |-> Nil, io |-> read,
              err |-> Errorf("error reading", errPath, "is a directory")]
        ELSE
          LET parsed == modfileParse(files[goModPath].data)
          IN  IF parsed.err
              THEN [file |-> Nil, io |-> read,
                    err |-> Errorf("error parsing module file", Empty,
                                   "syntax")]
              ELSE IF parsed.file.Module = Nil
              THEN [file |-> Nil, io |-> read,
                    err |-> Errorf("parsed module should not be nil",
                                   Empty, "")]
              ELSE [file |-> parsed.file, io |-> read, err |-> NoErr]

\* Mutant: line 110 is missing, the version of the file is kept.
getModuleFile_KeepVersion(files, path, version) ==
    LoadSteps(files, Join(path, GoMod), Join(path, GoMod))

\* Mutant: the open and read errors name the directory, not the file.
getModuleFile_ErrNamesDir(files, path, version) ==
    LET r == LoadSteps(files, Join(path, GoMod), path)
    IN  IF r.err # NoErr
        THEN r
        ELSE [r EXCEPT !.file.Module.Mod.Version = version]

\* Mutant: line 110 replaces the whole Mod, losing the declared path.
getModuleFile_ResetMod(files, path, version) ==
    LET r == LoadSteps(files, Join(path, GoMod), Join(path, GoMod))
    IN  IF r.err # NoErr
        THEN r
        ELSE [r EXCEPT !.file.Module.Mod =
                           [Path |-> Empty, Version |-> version]]

\* getModuleFile(packagePath, version): [file, err, io].
getModuleFile(files, path, version) ==
    LET goModPath == Join(path, GoMod)
        opened == <<Event("open", goModPath, NoMod)>>
        read == opened \o <<Event("read", goModPath, NoMod)>>
    IN  IF goModPath \notin DOMAIN files
        THEN [file |-> Nil, io |-> opened,
              err |-> Errorf("error opening", goModPath, "not exist")]
        ELSE IF files[goModPath].kind = "denied"
        THEN [file |-> Nil, io |-> opened,
              err |-> Errorf("error opening", goModPath, "permission")]
        ELSE IF files[goModPath].kind = "dir"
        THEN [file |-> Nil, io |-> read,
              err |-> Errorf("error reading", goModPath, "is a directory")]
        ELSE
          LET parsed == modfileParse(files[goModPath].data)
          IN  IF parsed.err
              THEN [file |-> Nil, io |-> read,
                    err |-> Errorf("error parsing module file", Empty,
                                   "syntax")]
              ELSE IF parsed.file.Module = Nil
              THEN [file |-> Nil, io |-> read,
                    err |-> Errorf("parsed module should not be nil",
                                   Empty, "")]
              ELSE [file |-> [Module |->
                                 [Mod |-> [Path |-> parsed.file.Module.Mod.Path,
                                           Version |-> version]]],
                    io |-> read, err |-> NoErr]

\* The body of createZipArchive for a given zipFilePath.  (Shared by the
\* mutants below.)
ZipSteps(files, path, moduleFile, zipFilePath, outcome) ==
    LET built == CreateFromDir(files, moduleFile.Module.Mod, path)
        building == <<Event("build", path, moduleFile.Module.Mod)>>
        written == WriteFile(files, zipFilePath, built.bytes, outcome)
        writing == building \o <<Event("write", zipFilePath, NoMod)>>
    IN  IF built.err
        THEN [err |-> Errorf("create zip from dir", Empty, "builder"),
              files |-> files, io |-> building]
        ELSE IF written.err
        THEN [err |-> Errorf("writing zip file", Empty, outcome),
              files |-> written.files, io |-> writing]
        ELSE [err |-> NoErr, files |-> written.files, io |-> writing]

\* Mutant: the path is concatenated without a separator.
createZipArchive_NoSeparator(files, path, moduleFile, outputDirectory, outcome) ==
    ZipSteps(files, path, moduleFile,
             outputDirectory \o moduleFile.Module.Mod.Version \o ZipExt,
             outcome)

\* Mutant: the archive is written into the source directory.
createZipArchive_IntoSource(files, path, moduleFile, outputDirectory, outcome) ==
    ZipSteps(files, path, moduleFile,
             Join(path, moduleFile.Module.Mod.Version \o ZipExt), outcome)

\* createZipArchive(packagePath, moduleFile, outputDirectory), with the
\* outcome of its os.WriteFile: [err, files, io].
createZipArchive(files, path, moduleFile, outputDirectory, outcome) ==
    LET zipFilePath ==
            Join(outputDirectory, moduleFile.Module.Mod.Version \o ZipExt)
        built == CreateFromDir(files, moduleFile.Module.Mod, path)
        building == <<Event("build", path, moduleFile.Module.Mod)>>
        written == WriteFile(files, zipFilePath, built.bytes, outcome)
        writing == building \o <<Event("write", zipFilePath, NoMod)>>
    IN  IF built.err
        THEN [err |-> Errorf("create zip from dir", Empty, "builder"),
              files |-> files, io |-> building]
        ELSE IF written.err
        THEN [err |-> Errorf("writing zip file", Empty, outcome),
              files |-> written.files, io |-> writing]
        ELSE [err |-> NoErr, files |-> written.files, io |-> writing]

(***************************************************************************)
(* Inputs of a behaviour                                                   *)
(***************************************************************************)
Foo == <<"e", "x", "a", "m", "p", "l", "e", ".", "c", "o", "m", "/", "f", "o", "o">>
FooSlash == Foo \o Slash
FooV2 == Foo \o <<"/", "v", "2">>
Bar == <<"e", "x", "a", "m", "p", "l", "e", ".", "c", "o", "m", "/", "b", "a", "r">>

\* --package-name
PackageNames == {Empty, Foo, FooSlash, Bar}

\* Module paths a go.mod may declare.
DeclaredPaths == {Foo, FooV2}

\* The version field of the parsed module before line 110 overwrites it.
\* modfile.Parse leaves it empty; the second value stands for any other
\* content, so that the overwrite is observable.
DeclaredVersions == {Empty, <<"v", "9", ".", "9", ".", "9">>}

\* Well-formed semantic versions, without the v.
GoodVersions ==
    {FormatUint(m) \o <<".", "3", ".", "1">> : m \in 0..MaxMajor}
        \cup {<<"1", ".", "0", ".", "0">>,
              <<"1", "0", ".", "0", ".", "0">>,
              <<"0", ".", "0", ".", "0", "-", "2", "0", "1", "9", "-", "a", "b">>,
              <<"2", ".", "0", ".", "0", "+", "b">>}

\* Strings semver.Parse rejects.
BadVersions ==
    {<<"0", "1", ".", "0", ".", "0">>,
     <<"1", ".", "0">>,
     <<"1", ".", "x", ".", "0">>,
     <<"1", ".", "0", ".", "0", "-">>,
     <<"1", ".", "0", ".", "0", "-", "0", "1">>,
     <<".", "1", ".", "2">>,
     <<"1", ".", "0", ".", "0", "+">>,
     <<"v", "1", ".", "0", ".", "0">>}

\* --pseudo-version: the empty string, and every version above with and
\* without a leading v.
PseudoVersions ==
    {Empty} \cup GoodVersions \cup BadVersions
        \cup {VPrefix \o v : v \in GoodVersions \cup BadVersions}

\* $GOPATH
GoPaths == {<<"/", "g", "o">>}

\* What may be found at <dir>/go.mod.
GoModFiles ==
    {DeniedFile, DirFile,
     GoModFile(FALSE, FALSE, Empty, Empty),
     GoModFile(TRUE, FALSE, Empty, Empty)}
        \cup {GoModFile(TRUE, TRUE, p, v) :
                 p \in DeclaredPaths, v \in DeclaredVersions}

\* The file systems a run may start from: under the source directory of
\* one module, a go.mod (or none) and possibly a file over the size limit;
\* possibly a file already at the path the run would write.
InitialFiles(root, name, version) ==
    LET out == Join(CacheDir(root, name,
                             ValidateFlags(name, version).Major),
                    version \o ZipExt)
        Src(n) == PackagePath(root, n)
        Put(S) == [p \in {e[1] : e \in S} |->
                      (CHOOSE e \in S : e[1] = p)[2]]
    IN  {Put(gm \cup big \cup old) :
            gm \in {{}} \cup {{<<Join(Src(n), GoMod), f>>} :
                                 n \in {Foo, Bar}, f \in GoModFiles},
            big \in {{}} \cup {{<<Join(Src(n), <<"b", "i", "g">>), HugeFile>>} :
                                  n \in {Foo}},
            old \in {{}, {<<out, StaleFile>>}}}

(***************************************************************************)
(* State                                                                   *)
(***************************************************************************)
VARIABLES
    gopath,          \* os.Getenv("GOPATH")
    packageName,     \* *packageName
    pseudoVersion,   \* *pseudoVersion
    fs,              \* the file system
    pc,              \* where main is: start, paths, load, zip, done, fatal
    pseudoSemver,    \* pseudoSemver.Major
    packagePath,     \* packagePath
    cacheDir,        \* cacheDir
    moduleFile,      \* moduleFile
    err,             \* the error glog.Fatalf reported, NoErr when none
    trace,           \* the I/O calls of the current run, in order
    run,             \* the number of the current run
    fsStart,         \* the file system when the current run started
    prevExit         \* how the previous run ended: none, done, fatal

vars ==
    <<gopath, packageName, pseudoVersion, fs, pc, pseudoSemver, packagePath,
      cacheDir, moduleFile, err, trace, run, fsStart, prevExit>>

inputs == <<gopath, packageName, pseudoVersion>>

Init ==
    /\ gopath \in GoPaths
    /\ packageName \in PackageNames
    /\ pseudoVersion \in PseudoVersions
    /\ fs \in InitialFiles(gopath, packageName, pseudoVersion)
    /\ pc = "start"
    /\ pseudoSemver = 0
    /\ packagePath = Empty
    /\ cacheDir = Empty
    /\ moduleFile = Nil
    /\ err = NoErr
    /\ trace = << >>
    /\ run = 1
    /\ fsStart = fs
    /\ prevExit = "none"

\* glog.Fatalf(ctx + ": %v", e): the process exits.
Fatalf(ctx, e) ==
    /\ pc' = "fatal"
    /\ err' = [e EXCEPT !.ctx = ctx]

\* main, lines 59-70
Validate ==
    /\ pc = "start"
    /\ LET v == ValidateFlags(packageName, pseudoVersion)
       IN  IF v.fatal # ""
           THEN /\ Fatalf(v.fatal, NoErr)
                /\ UNCHANGED pseudoSemver
           ELSE /\ pc' = "paths"
                /\ pseudoSemver' = v.Major
                /\ UNCHANGED err
    /\ UNCHANGED <<inputs, fs, packagePath, cacheDir, moduleFile, trace, run,
                   fsStart, prevExit>>

\* main, lines 72-76
ComputePaths ==
    /\ pc = "paths"
    /\ packagePath' = PackagePath(gopath, packageName)
    /\ cacheDir' = CacheDir(gopath, packageName, pseudoSemver)
    /\ pc' = "load"
    /\ UNCHANGED <<inputs, fs, pseudoSemver, moduleFile, err, trace, run,
                   fsStart, prevExit>>

\* main, lines 78-81
LoadModuleFile ==
    /\ pc = "load"
    /\ LET r == getModuleFile(fs, packagePath, pseudoVersion)
       IN  /\ trace' = trace \o r.io
           /\ moduleFile' = r.file
           /\ IF r.err # NoErr
              THEN Fatalf("error getting module file", r.err)
              ELSE pc' = "zip" /\ UNCHANGED err
    /\ UNCHANGED <<inputs, fs, pseudoSemver, packagePath, cacheDir, run,
                   fsStart, prevExit>>

\* main, lines 83-85
WriteArchive ==
    /\ pc = "zip"
    /\ \E outcome \in WriteOutcomes :
          LET r == createZipArchive(fs, packagePath, moduleFile, cacheDir,
                                    outcome)
          IN  /\ trace' = trace \o r.io
              /\ fs' = r.files
              /\ IF r.err # NoErr
                 THEN Fatalf("error creating zip archive", r.err)
                 ELSE pc' = "done" /\ UNCHANGED err
    /\ UNCHANGED <<inputs, pseudoSemver, packagePath, cacheDir, moduleFile,
                   run, fsStart, prevExit>>

\* The tool is invoked again with the same flags and environment, on the
\* file system the previous run left.
Rerun ==
    /\ pc \in {"done", "fatal"}
    /\ run < MaxRuns
    /\ run' = run + 1
    /\ prevExit' = pc
    /\ fsStart' = fs
    /\ pc' = "start"
    /\ pseudoSemver' = 0
    /\ packagePath' = Empty
    /\ cacheDir' = Empty
    /\ moduleFile' = Nil
    /\ err' = NoErr
    /\ trace' = << >>
    /\ UNCHANGED <<inputs, fs>>

Next ==
    \/ Validate
    \/ ComputePaths
    \/ LoadModuleFile
    \/ WriteArchive
    \/ Rerun

Spec == Init /\ [][Next]_vars

(***************************************************************************)
(* What the properties below speak of                                      *)
(***************************************************************************)
\* The pseudo-version, with an optional leading v stripped, is a semantic
\* version.
VersionParses == ~semverParse(TrimPrefix(pseudoVersion, VPrefix)).err

\* The major version of the pseudo-version.
MajorOf == semverParse(TrimPrefix(pseudoVersion, VPrefix)).Major

\* <root>/src/<package-name> and the descriptor in it.
SourceDir == gopath \o SrcInfix \o packageName
Descriptor == Join(SourceDir, GoMod)

\* <root>/pkg/mod/cache/download/<package-name>/@v
BaseCacheDir == gopath \o CacheInfix \o packageName \o AtV

\* <outputDir>/<pseudoVersion>.zip
OutputPath == Join(cacheDir, pseudoVersion \o ZipExt)

\* The run got past validation and computed its paths.
PathsComputed == pc \in {"load", "zip", "done"} \/ (pc = "fatal" /\ trace # << >>)

\* The run got past getModuleFile.
Loaded ==
    pc \in {"zip", "done"}
        \/ (pc = "fatal" /\ err.ctx = "error creating zip archive")

\* The descriptor the run started from holds a module directive.
DescriptorDeclares ==
    /\ Descriptor \in DOMAIN fsStart
    /\ fsStart[Descriptor].kind = "regular"
    /\ ~modfileParse(fsStart[Descriptor].data).err
    /\ modfileParse(fsStart[Descriptor].data).file.Module # Nil

\* The module path the descriptor declares.
DeclaredPath == modfileParse(fsStart[Descriptor].data).file.Module.Mod.Path

Events(op) == {i \in 1..Len(trace) : trace[i].op = op}

\* The file systems a and b agree everywhere but at path p.
SameButAt(a, b, p) ==
    /\ DOMAIN a \ {p} = DOMAIN b \ {p}
    /\ \A q \in DOMAIN a \ {p} : a[q] = b[q]

\* The run wrote one file, at OutputPath, holding what the archive builder
\* returns for (name, pseudo-version, source directory).
Produced(name) ==
    LET direct == CreateFromDir(fsStart,
                                [Path |-> name, Version |-> pseudoVersion],
                                SourceDir)
    IN  /\ Cardinality(Events("write")) = 1
        /\ \A i \in Events("write") : trace[i].path = OutputPath
        /\ SameButAt(fs, fsStart, OutputPath)
        /\ OutputPath \in DOMAIN fs
        /\ ~direct.err
        /\ fs[OutputPath] = [kind |-> "regular", data |-> direct.bytes]

(***************************************************************************)
(* C1                                                                      *)
(***************************************************************************)
\* C1, as stated: every terminated run with a non-empty package-name and a
\* pseudo-version that parses has produced the output file, with the bytes
\* of the archive builder.
C1_EveryValidRunProduces ==
    (packageName # Empty /\ VersionParses /\ pc \in {"done", "fatal"})
        => /\ pc = "done"
           /\ DescriptorDeclares
           /\ Produced(DeclaredPath)

\* C1, amended: every run that ends without error (non-empty package-name,
\* pseudo-version that parses, descriptor loaded, archive built and written)
\* has written exactly one file, at <outputDir>/<pseudoVersion>.zip, whose
\* bytes are those the archive builder returns for the module path the
\* descriptor declares, the pseudo-version and the source directory.
C1_SuccessfulRunProduces ==
    pc = "done"
        => /\ packageName # Empty
           /\ VersionParses
           /\ DescriptorDeclares
           /\ Produced(DeclaredPath)

\* A run succeeded over a file that was already at the output path.
C1_Witness ==
    /\ pc = "done"
    /\ OutputPath \in DOMAIN fsStart
    /\ fsStart[OutputPath] = StaleFile
    /\ fs[OutputPath] # StaleFile

(***************************************************************************)
(* C2                                                                      *)
(***************************************************************************)
\* C2, as stated: a run that ended in an error left the file system as it
\* found it, so no output was created or modified.
C2_FailureLeavesNoOutput == pc = "fatal" => fs = fsStart

(***************************************************************************)
(* C3                                                                      *)
(***************************************************************************)
\* C3: when the pseudo-version does not parse, the run ends in a fatal error
\* at its first step, having opened, built and written nothing.
C3_BadVersionIsFatal ==
    ~VersionParses
        => \/ pc = "start"
           \/ /\ pc = "fatal"
              /\ err.ctx \in {"package-name cannot be empty",
                              "pseudo-version cannot be empty",
                              "error parsing pseudo-version"}
              /\ trace = << >>
              /\ fs = fsStart

\* A run was refused for its version alone: the flags are not empty and a
\* loadable descriptor is in place.
C3_Witness ==
    /\ pc = "fatal"
    /\ err.ctx = "error parsing pseudo-version"
    /\ pseudoVersion = <<"v", "v", "1", ".", "0", ".", "0">>
    /\ DescriptorDeclares

(***************************************************************************)
(* C4                                                                      *)
(***************************************************************************)
\* C4: when package-name or pseudo-version is empty, the run ends in a fatal
\* error before any I/O: no open, no read, no build, no write.
C4_EmptyFlagIsFatalBeforeIO ==
    (packageName = Empty \/ pseudoVersion = Empty)
        => \/ pc = "start"
           \/ /\ pc = "fatal"
              /\ err.ctx \in {"package-name cannot be empty",
                              "pseudo-version cannot be empty"}
              /\ \A op \in {"open", "read", "build", "write"} :
                     Events(op) = {}
              /\ fs = fsStart

\* A run was refused for its empty package-name, with a good version.
C4_Witness ==
    /\ pc = "fatal"
    /\ packageName = Empty
    /\ VersionParses
    /\ err.ctx = "package-name cannot be empty"

C6_MajorSegmentBeforeAtV ==
    PathsComputed
        => IF MajorOf >= 2
           THEN HasSuffix(cacheDir,
                          packageName \o SlashV \o FormatUint(MajorOf) \o AtV)
           ELSE HasSuffix(cacheDir, packageName \o AtV)

(***************************************************************************)
(* C7                                                                      *)
(***************************************************************************)
\* C7: once getModuleFile has succeeded, the version of the descriptor is
\* the pseudo-version as given; it is the version the archive builder gets
\* and the stem of the file written.
C7_VersionIsTheArgument ==
    Loaded
        => /\ moduleFile.Module.Mod.Version = pseudoVersion
           /\ \A i \in Events("build") : trace[i].mod.Version = pseudoVersion
           /\ \A i \in Events("write") :
                  trace[i].path = Join(cacheDir, pseudoVersion \o ZipExt)

\* A run succeeded with a v-prefixed version over a descriptor that carried
\* another version.
C7_Witness ==
    /\ pc = "done"
    /\ HasPrefix(pseudoVersion, VPrefix)
    /\ modfileParse(fsStart[Descriptor].data).file.Module.Mod.Version
           \notin {Empty, pseudoVersion}

(***************************************************************************)
(* C8                                                                      *)
(***************************************************************************)
\* The run stopped in getModuleFile with the given message and path, without
\* a descriptor, a build or a write.
LoadFailed(msg, path) ==
    /\ pc = "fatal"
    /\ err.ctx = "error getting module file"
    /\ err.msg = msg
    /\ err.path = path
    /\ moduleFile = Nil
    /\ Events("build") = {} /\ Events("write") = {}
    /\ fs = fsStart

\* C8: a run past getModuleFile whose descriptor was missing or unreadable
\* stopped with an open or read error naming <sourceDir>/go.mod; one whose
\* descriptor was malformed stopped with a parse error; one whose descriptor
\* held no module stopped with "parsed module should not be nil".
C8_LoadErrors ==
    (packageName # Empty /\ VersionParses /\ pc \in {"zip", "done", "fatal"})
        => /\ (Descriptor \notin DOMAIN fsStart
                 \/ fsStart[Descriptor].kind = "denied")
                  => /\ LoadFailed("error opening", Descriptor)
                     /\ \A i \in Events("open") : trace[i].path = err.path
           /\ (Descriptor \in DOMAIN fsStart
                 /\ fsStart[Descriptor].kind = "dir")
                  => LoadFailed("error reading", Descriptor)
           /\ (Descriptor \in DOMAIN fsStart
                 /\ fsStart[Descriptor].kind = "regular"
                 /\ modfileParse(fsStart[Descriptor].data).err)
                  => LoadFailed("error parsing module file", Empty)
           /\ (Descriptor \in DOMAIN fsStart
                 /\ fsStart[Descriptor].kind = "regular"
                 /\ ~modfileParse(fsStart[Descriptor].data).err
                 /\ modfileParse(fsStart[Descriptor].data).file.Module = Nil)
                  => LoadFailed("parsed module should not be nil", Empty)

\* A run stopped because its descriptor was missing.
C8_Witness ==
    /\ Descriptor \notin DOMAIN fsStart
    /\ LoadFailed("error opening", Descriptor)
    /\ err.cause = "not exist"

\* The other cases of C8 happen too.
C8_ReadErrorSeen == LoadFailed("error reading", Descriptor)
C8_ParseErrorSeen == LoadFailed("error parsing module file", Empty)
C8_NilModuleSeen == LoadFailed("parsed module should not be nil", Empty)

(***************************************************************************)
(* C9                                                                      *)
(***************************************************************************)
\* C9: a successful run that follows a successful run with the same inputs
\* leaves the file system as the first run left it: it wrote once, over the
\* first run's file, the same bytes.
C9_SecondRunSameBytes ==
    (run > 1 /\ prevExit = "done" /\ pc = "done")
        => /\ fs = fsStart
           /\ Cardinality(Events("write")) = 1
           /\ \A i \in Events("write") :
                  /\ trace[i].path \in DOMAIN fsStart
                  /\ fs[trace[i].path] = fsStart[trace[i].path]

\* Two runs in a row succeeded.
C9_Witness == run > 1 /\ prevExit = "done" /\ pc = "done"

(***************************************************************************)
(* C10                                                                     *)
(***************************************************************************)
\* C10: the archive builder is given the module path the descriptor
\* declares and the source directory of package-name, and the file is
\* written below the cache directory of package-name, whether or not the
\* declared path is package-name.
C10_DeclaredPathFlagDirs ==
    /\ \A i \in Events("build") :
           /\ DescriptorDeclares
           /\ trace[i].mod.Path = DeclaredPath
           /\ trace[i].path = SourceDir
    /\ \A i \in Events("write") :
           HasPrefix(trace[i].path,
                     Clean(gopath \o CacheInfix \o packageName) \o Slash)
    /\ pc = "done"
           => /\ Events("build") # {} /\ Events("write") # {}
              /\ fs[OutputPath].data[1].mod.Path = DeclaredPath

\* A run succeeded although the descriptor declares another path than
\* package-name.
C10_Witness ==
    /\ pc = "done"
    /\ packageName = Foo
    /\ DeclaredPath = FooV2
    /\ fs[OutputPath].data[1].mod.Path # packageName

=============================================================================
